---- MODULE Spec2Model ----
(***************************************************************************)
(* Model of app.py: the resampler get_interpolated_data and the Streamlit  *)
(* session shell around it.                                                *)
(*                                                                         *)
(* Representation.  A text is the sequence of its lines (the text is their *)
(* join with "\n"); a line is a sequence of one-character strings.  A      *)
(* number is held in tenths (the sample tokens carry at most one           *)
(* fractional digit), so y values, the step and the y grid are integers.   *)
(* Interpolated x values are exact reduced fractions <<num, den>> of       *)
(* tenths.  Arithmetic is exact: the absolute tolerances of the code       *)
(* (1e-12, step*1e-9, step*1e-6) lie below one tenth and are 0 at this     *)
(* resolution.  None is <<>> and a present value v is <<v>>.               *)
(***************************************************************************)
EXTENDS Integers, Sequences, FiniteSets, TLC

VARIABLES
  data_str,    \* the text of the input text area
  step_size,   \* the value of the step number input, in tenths
  data,        \* the list `data` the parsing loop of the last call built
  ret,         \* what the last call of get_interpolated_data gave back
  st_msgs,     \* the st.error / st.warning messages of the current run
  session,     \* st.session_state
  pc,          \* where the run is
  click        \* what the Generate click of the current rerun met

vars == <<data_str, step_size, data, ret, st_msgs, session, pc, click>>

\* ---------------------------------------------------------------- bounds
MaxLines == 4

MaxStepK == 3

\* ------------------------------------------------------------- characters
Digits == {"0", "1", "2", "3", "4", "5", "6", "7", "8", "9"}

DigitVal(c) ==
  CASE c = "0" -> 0 [] c = "1" -> 1 [] c = "2" -> 2 [] c = "3" -> 3
    [] c = "4" -> 4 [] c = "5" -> 5 [] c = "6" -> 6 [] c = "7" -> 7
    [] c = "8" -> 8 [] c = "9" -> 9

IsSpace(c) == c \in {" ", "\t"}

None == <<>>

Some(v) == <<v>>

\* str.strip(): drop leading and trailing whitespace
RECURSIVE LStrip(_)
LStrip(s) ==
  IF s # <<>> /\ IsSpace(Head(s)) THEN LStrip(Tail(s)) ELSE s

RECURSIVE RStrip(_)
RStrip(s) ==
  IF s # <<>> /\ IsSpace(s[Len(s)]) THEN RStrip(SubSeq(s, 1, Len(s) - 1)) ELSE s

Strip(s) == RStrip(LStrip(s))

\* the generator expression of line 26: keep digits, ".", "," and whitespace
KeepChar(c) == c \in Digits \/ c = "." \/ c = "," \/ IsSpace(c)

cleaned_line(line) == SelectSeq(line, KeepChar)

\* str.replace(",", " ")
ReplaceComma(s) == [i \in 1..Len(s) |-> IF s[i] = "," THEN " " ELSE s[i]]

\* str.split(): maximal runs of non-whitespace characters
RECURSIVE Split(_, _, _)
Split(s, cur, acc) ==
  IF s = <<>>
    THEN IF cur = <<>> THEN acc ELSE Append(acc, cur)
    ELSE IF IsSpace(Head(s))
           THEN Split(Tail(s), <<>>, IF cur = <<>> THEN acc ELSE Append(acc, cur))
           ELSE Split(Tail(s), Append(cur, Head(s)), acc)

parts(line) == Split(ReplaceComma(cleaned_line(line)), <<>>, <<>>)

\* float(token) on a token of digits and dots: it converts iff there is at
\* most one "." and at least one digit; anything else raises ValueError
CountDots(tok) == Cardinality({i \in 1..Len(tok) : tok[i] = "."})

CountDigits(tok) == Cardinality({i \in 1..Len(tok) : tok[i] \in Digits})

FloatOk(tok) ==
  /\ \A i \in 1..Len(tok) : tok[i] \in Digits \/ tok[i] = "."
  /\ CountDots(tok) <= 1
  /\ CountDigits(tok) >= 1

RECURSIVE DigitsValue(_, _)
DigitsValue(ds, acc) ==
  IF ds = <<>> THEN acc ELSE DigitsValue(Tail(ds), 10 * acc + DigitVal(Head(ds)))

\* the value of float(token), in tenths
FloatTenths(tok) ==
  LET dot  == IF CountDots(tok) = 0 THEN Len(tok) + 1
              ELSE CHOOSE i \in 1..Len(tok) : tok[i] = "."
      ip   == SubSeq(tok, 1, dot - 1)
      fp   == SubSeq(tok, dot + 1, Len(tok))
  IN  10 * DigitsValue(ip, 0) + (IF fp = <<>> THEN 0 ELSE DigitVal(fp[1]))

\* -------------------------------------------------------------- the text
IsBlank(line) == Strip(line) = <<>>

\* data_str.strip().splitlines(): the blank lines at either end of the text
\* go with the whitespace that strip() removes; interior lines stay
RECURSIVE DropLeadingBlank(_)
DropLeadingBlank(ls) ==
  IF ls # <<>> /\ IsBlank(Head(ls)) THEN DropLeadingBlank(Tail(ls)) ELSE ls

RECURSIVE DropTrailingBlank(_)
DropTrailingBlank(ls) ==
  IF ls # <<>> /\ IsBlank(ls[Len(ls)])
    THEN DropTrailingBlank(SubSeq(ls, 1, Len(ls) - 1)) ELSE ls

data_lines(text) ==
  LET ls == DropTrailingBlank(DropLeadingBlank(text))
      n  == Len(ls)
  IN  IF n = 0 THEN <<>>
      ELSE IF n = 1 THEN <<Strip(ls[1])>>
      ELSE <<LStrip(ls[1])>> \o SubSeq(ls, 2, n - 1) \o <<RStrip(ls[n])>>

\* the messages handed to st.error
MsgTwoNumbers(n) == [kind |-> "two_numbers", line |-> n]

MsgConvert(n) == [kind |-> "convert", line |-> n]

MsgTwoPoints == [kind |-> "two_points", line |-> 0]

\* the parsing loop, lines 20-38; i is enumerate's 0-based index
RECURSIVE ParseLoop(_, _, _)
ParseLoop(ls, i, acc) ==
  IF i >= Len(ls) THEN [ok |-> TRUE, data |-> acc, msg |-> MsgTwoPoints]
  ELSE LET line == Strip(ls[i + 1])
           p    == parts(line)
       IN  IF line = <<>> THEN ParseLoop(ls, i + 1, acc)
           ELSE IF Len(p) # 2
             THEN [ok |-> FALSE, data |-> acc, msg |-> MsgTwoNumbers(i + 1)]
           ELSE IF ~(FloatOk(p[1]) /\ FloatOk(p[2]))
             THEN [ok |-> FALSE, data |-> acc, msg |-> MsgConvert(i + 1)]
           ELSE ParseLoop(ls, i + 1,
                          Append(acc, [x |-> FloatTenths(p[1]), y |-> FloatTenths(p[2])]))

\* --------------------------------------------------------------- numbers
Abs(a) == IF a < 0 THEN -a ELSE a

RECURSIVE GCD(_, _)
GCD(a, b) == IF b = 0 THEN a ELSE GCD(b, a % b)

\* the reduced fraction n/d, d > 0, n >= 0
Frac(n, d) == LET g == GCD(n, d) IN <<n \div g, d \div g>>

\* floor(a / b) for b # 0 and a >= 0
FloorDiv(a, b) ==
  IF b > 0 THEN a \div b ELSE -((a + (-b) - 1) \div (-b))

\* np.isclose(a, b, rtol=0, atol=atol)
IsClose(a, b, atol) == Abs(a - b) <= atol

\* max(1e-12, step_size * 1e-9), line 61, in tenths
AtolGrid(step) == 0

\* tol = max(1e-12, step_size * 1e-6), line 76, in tenths
tol(step) == 0

\* sorted(data, key=lambda item: item[1]): stable, ascending in y
RECURSIVE InsertByY(_, _)
InsertByY(s, p) ==
  IF s = <<>> THEN <<p>>
  ELSE IF s[Len(s)].y <= p.y THEN Append(s, p)
  ELSE Append(InsertByY(SubSeq(s, 1, Len(s) - 1), p), s[Len(s)])

RECURSIVE SortedFrom(_, _)
SortedFrom(pts, acc) ==
  IF pts = <<>> THEN acc ELSE SortedFrom(Tail(pts), InsertByY(acc, Head(pts)))

\* variant of data_sorted: the sort is left out
data_sorted_Unsorted(pts) == pts

data_sorted(pts) == SortedFrom(pts, <<>>)

\* variant of n_steps: the "+ 1" is left out
n_steps_NoPlusOne(min_y, max_y, step) == (max_y - min_y) \div step

\* n_steps, line 57; the 1e-12 does not change the floor at this resolution
n_steps(min_y, max_y, step) == FloorDiv(max_y - min_y, step) + 1

\* base_y = min_y + step_size * np.arange(n_steps), line 58
base_y(min_y, step, n) == [k \in 1..n |-> min_y + step * (k - 1)]

\* variant of new_y_grid: max_y is never appended
new_y_grid_NoAppend(by, max_y, step) == by

\* lines 61-64: append max_y when the last grid value is not close to it
new_y_grid(by, max_y, step) ==
  IF ~IsClose(by[Len(by)], max_y, AtolGrid(step)) THEN Append(by, max_y) ELSE by

\* variant of Interp: at a knot, the first point of a run of equal y is taken
Interp_FirstOfTies(y, yp, xp) ==
  LET n == Len(yp)
  IN  IF y >= yp[n] THEN <<xp[CHOOSE k \in 1..n : yp[k] = yp[n] /\ \A m \in 1..(k - 1) : yp[m] < yp[n]], 1>>
      ELSE IF y <= yp[1] THEN <<xp[1], 1>>
      ELSE LET j == CHOOSE k \in 1..n :
                      /\ yp[k] < y
                      /\ \A m \in (k + 1)..n : yp[m] >= y
               g == GCD((xp[j + 1] - xp[j]) * (y - yp[j]) + xp[j] * (yp[j + 1] - yp[j]),
                        yp[j + 1] - yp[j])
           IN  << ((xp[j + 1] - xp[j]) * (y - yp[j]) + xp[j] * (yp[j + 1] - yp[j])) \div g,
                  (yp[j + 1] - yp[j]) \div g >>

\* variant of Interp: the x of the knot below is taken, nothing interpolated
Interp_KnotBelow(y, yp, xp) ==
  LET n == Len(yp)
      j == CHOOSE k \in 1..n :
             /\ yp[k] <= y
             /\ \A m \in (k + 1)..n : yp[m] > y
  IN  <<xp[j], 1>>

\* np.interp(y, yp, xp) for one y: saturate outside [yp[1], yp[last]];
\* inside, j is the last index with yp[j] <= y, the knot's own x is returned
\* at a knot, and the segment j..j+1 is interpolated otherwise
Interp(y, yp, xp) ==
  LET n == Len(yp)
  IN  IF y > yp[n] THEN Frac(xp[n], 1)
      ELSE IF y < yp[1] THEN Frac(xp[1], 1)
      ELSE LET j == CHOOSE k \in 1..n :
                      /\ yp[k] <= y
                      /\ \A m \in (k + 1)..n : yp[m] > y
           IN  IF j = n \/ yp[j] = y THEN Frac(xp[j], 1)
               ELSE Frac((xp[j + 1] - xp[j]) * (y - yp[j]) + xp[j] * (yp[j + 1] - yp[j]),
                         yp[j + 1] - yp[j])

\* variant of append_point: the extended arrays are dropped
append_point_Dropped(arr, xval, yval, t) == arr

\* append_point, lines 70-74, on the paired arrays [x, y]
append_point(arr, xval, yval, t) ==
  IF ~(\E i \in 1..Len(arr.y) : IsClose(arr.y[i], yval, t))
    THEN [x |-> Append(arr.x, Frac(xval, 1)), y |-> Append(arr.y, yval)]
    ELSE arr

\* np.argsort(new_y_values): the indices in ascending order of value
RECURSIVE InsertIdx(_, _, _)
InsertIdx(order, i, ys) ==
  IF order = <<>> THEN <<i>>
  ELSE IF ys[order[Len(order)]] <= ys[i] THEN Append(order, i)
  ELSE Append(InsertIdx(SubSeq(order, 1, Len(order) - 1), i, ys), order[Len(order)])

RECURSIVE ArgsortFrom(_, _, _)
ArgsortFrom(ys, i, order) ==
  IF i > Len(ys) THEN order ELSE ArgsortFrom(ys, i + 1, InsertIdx(order, i, ys))

argsort(ys) == ArgsortFrom(ys, 1, <<>>)

\* lines 83-85: both arrays taken in the same order
Reorder(arr) ==
  LET order == argsort(arr.y)
  IN  [x |-> [i \in 1..Len(order) |-> arr.x[order[i]]],
       y |-> [i \in 1..Len(order) |-> arr.y[order[i]]]]

\* --------------------------------------------------- get_interpolated_data
\* what a call gives back: it raised, or it returned the triple
\* (original_data, new_data, error)
Returned(orig, new, err) ==
  [raised |-> FALSE, original |-> orig, new |-> new, error |-> err]

Raised == [raised |-> TRUE, original |-> None, new |-> None, error |-> None]

\* lines 44-87, after the parse accepted at least two points
Resample(pts, step) ==
  LET first_raw == pts[1]
      last_raw  == pts[Len(pts)]
      srt       == data_sorted(pts)
      original_x == [i \in 1..Len(srt) |-> srt[i].x]
      original_y == [i \in 1..Len(srt) |-> srt[i].y]
      min_y     == original_y[1]
      max_y     == original_y[Len(srt)]
  IN  IF step = 0 THEN Raised                \* int(floor(inf or nan)) raises
      ELSE LET n == n_steps(min_y, max_y, step)
           IN  IF n <= 0 THEN Raised         \* base_y is empty: base_y[-1] raises
               ELSE LET ys == new_y_grid(base_y(min_y, step, n), max_y, step)
                        xs == [i \in 1..Len(ys) |-> Interp(ys[i], original_y, original_x)]
                        a0 == [x |-> xs, y |-> ys]
                        a1 == append_point(a0, first_raw.x, first_raw.y, tol(step))
                        a2 == append_point(a1, last_raw.x, last_raw.y, tol(step))
                    IN  Returned(Some([x |-> original_x, y |-> original_y]),
                                 Some(Reorder(a2)), None)

\* one call: the list it parsed, the st.error calls it made, what it gave back
get_interpolated_data(text, step) ==
  LET p == ParseLoop(data_lines(text), 0, <<>>)
  IN  IF ~p.ok
        THEN [data |-> p.data, msgs |-> <<p.msg>>, ret |-> Returned(None, None, None)]
      ELSE IF Len(p.data) < 2
        THEN [data |-> p.data, msgs |-> <<MsgTwoPoints>>,
              ret |-> Returned(None, None, None)]
      ELSE [data |-> p.data, msgs |-> <<>>, ret |-> Resample(p.data, step)]

\* ----------------------------------------------------------------- inputs
L_0_0 == <<"0", ",", "0">>

L_10_1 == <<"1", "0", ",", "1">>

L_20_2 == <<"2", "0", ",", "2">>

L_0_1 == <<"0", ",", "1">>

L_1_0 == <<"1", ",", "0">>

L_2_2 == <<"2", ",", "2">>

L_abc == <<"a", "b", "c">>

L_dots == <<"1", ".", ".", "2", ",", "3">>

L_blank == <<>>

Lines == {L_0_0, L_10_1, L_20_2, L_0_1, L_1_0, L_2_2, L_abc, L_dots, L_blank}

RECURSIVE SeqsUpTo(_, _)
SeqsUpTo(S, n) ==
  IF n = 0 THEN {<<>>}
  ELSE LET prev == SeqsUpTo(S, n - 1)
       IN  prev \cup {Append(s, e) : s \in {t \in prev : Len(t) = n - 1}, e \in S}

Texts == SeqsUpTo(Lines, MaxLines) \ {<<>>}

\* the step in tenths: -0.5, 0, 0.5, 1.0, ...
Steps == {5 * k : k \in -1..MaxStepK}

\* ------------------------------------------------------------ the session
Session0 ==
  [results_data |-> None, original_data |-> None, generation_time |-> None,
   just_generated |-> FALSE, output_text_area |-> None]

\* -------------------------------------------- specification of the function
InitCore ==
  /\ data_str \in Texts
  /\ step_size \in Steps
  /\ data = <<>>
  /\ ret = Returned(None, None, None)
  /\ st_msgs = <<>>
  /\ session = Session0
  /\ pc = "ready"
  /\ click = "none"

Call ==
  /\ pc = "ready"
  /\ LET r == get_interpolated_data(data_str, step_size)
     IN  /\ data' = r.data
         /\ ret' = r.ret
         /\ st_msgs' = r.msgs
  /\ pc' = "returned"
  /\ UNCHANGED <<data_str, step_size, session, click>>

NextCore == Call

SpecCore == InitCore /\ [][NextCore]_vars

\* ------------------------------------------------- specification of the app
\* what the sidebar can hold: the text area's lines and the number input,
\* whose min_value keeps the step positive
L_sp == <<" ", "5", " ", "0", ".", "5">>

L_neg == <<"-", "1", ",", "0">>

ShellTexts ==
  { <<L_blank>>, <<L_0_0>>, <<L_0_0, L_abc>>, <<L_0_0, L_10_1, L_20_2>>,
    <<L_0_1, L_1_0, L_2_2>>, <<L_sp, L_neg, L_2_2>> }

ShellSteps == {5, 15}

\* `if error:` and `if not data_str.strip():`
Truthy(v) == v # None

TextIsEmpty(text) == data_lines(text) = <<>>

MsgWarning == [kind |-> "provide_input", line |-> 0]

\* round a / b to the nearest integer, ties to even
RoundDiv(a, b) ==
  LET q == a \div b
      r == a % b
  IN  IF 2 * r < b THEN q
      ELSE IF 2 * r > b THEN q + 1
      ELSE IF q % 2 = 0 THEN q ELSE q + 1

\* lines 161-164: one row f"{x:.2f},{y:.3f}" per point, as
\* <<hundredths of x, thousandths of y>>
result_csv(new) ==
  [i \in 1..Len(new.x) |-> <<RoundDiv(10 * new.x[i][1], new.x[i][2]), 100 * new.y[i]>>]

\* the state after the first run of the script: nothing clicked, nothing shown
Init ==
  /\ data_str \in ShellTexts
  /\ step_size \in ShellSteps
  /\ data = <<>>
  /\ ret = Returned(None, None, None)
  /\ st_msgs = <<>>
  /\ session = Session0
  /\ pc = "idle"
  /\ click = "none"

\* a rerun with the Generate button pressed: lines 129-145
ClickGenerate ==
  /\ pc = "idle"
  /\ UNCHANGED <<data_str, step_size>>
  /\ pc' = "display"
  /\ IF TextIsEmpty(data_str)
       THEN /\ st_msgs' = <<MsgWarning>>
            /\ session' = [session EXCEPT !.results_data = None,
                                          !.just_generated = FALSE]
            /\ click' = "empty"
            /\ UNCHANGED <<data, ret>>
       ELSE LET call == get_interpolated_data(data_str, step_size)
                r    == call.ret
            IN  /\ data' = call.data
                /\ ret' = r
                /\ st_msgs' = call.msgs
                /\ click' = IF call.msgs # <<>> THEN "fail" ELSE "ok"
                /\ IF Truthy(r.error)
                     THEN session' = [session EXCEPT !.results_data = None,
                                                     !.just_generated = FALSE]
                     ELSE session' = [session EXCEPT !.original_data = r.original,
                                                     !.results_data = r.new,
                                                     !.generation_time = Some("now"),
                                                     !.just_generated = TRUE]

\* a rerun caused by a change of the sidebar widgets, no click
EditInput ==
  /\ pc = "idle"
  /\ data_str' \in ShellTexts
  /\ step_size' \in ShellSteps
  /\ <<data_str', step_size'>> # <<data_str, step_size>>
  /\ pc' = "display"
  /\ click' = "none"
  /\ st_msgs' = <<>>
  /\ UNCHANGED <<data, ret, session>>

\* a rerun caused by the user editing the output text area, no click
EditOutput ==
  /\ pc = "idle"
  /\ session.output_text_area # None
  /\ session' = [session EXCEPT !.output_text_area =
                   Some([rows |-> session.output_text_area[1].rows, edited |-> TRUE])]
  /\ pc' = "display"
  /\ click' = "none"
  /\ st_msgs' = <<>>
  /\ UNCHANGED <<data_str, step_size, data, ret>>

\* the rest of the rerun: lines 148-199
Display ==
  /\ pc = "display"
  /\ pc' = "idle"
  /\ IF session.results_data # None
       THEN session' =
              [session EXCEPT
                 !.output_text_area =
                    IF session.just_generated \/ session.output_text_area = None
                      THEN Some([rows |-> result_csv(session.results_data[1]),
                                 edited |-> FALSE])
                      ELSE @,
                 !.just_generated = FALSE]
       ELSE UNCHANGED session
  /\ UNCHANGED <<data_str, step_size, data, ret, st_msgs, click>>

Next == ClickGenerate \/ EditInput \/ EditOutput \/ Display

Spec == Init /\ [][Next]_vars

\* ------------------------------------------------------ reading the state
\* the call reported no input error: the parse accepted at least 2 points
Accepted == st_msgs = <<>> /\ Len(data) >= 2

Succeeded == pc = "returned" /\ ~ret.raised /\ ret.new # None /\ ret.original # None

NewX == ret.new[1].x

NewY == ret.new[1].y

OrigX == ret.original[1].x

OrigY == ret.original[1].y

MinYOf(pts) == CHOOSE m \in {pts[i].y : i \in 1..Len(pts)} :
                 \A i \in 1..Len(pts) : m <= pts[i].y

MaxYOf(pts) == CHOOSE m \in {pts[i].y : i \in 1..Len(pts)} :
                 \A i \in 1..Len(pts) : m >= pts[i].y

\* y lies on the step grid from lo, or is the upper end hi
OnGrid(y, lo, hi) ==
  \/ y = hi
  \/ step_size > 0 /\ y >= lo /\ y <= hi /\ (y - lo) % step_size = 0

\* a non-blank line that does not yield exactly two numeric tokens
BadLine(line) ==
  /\ ~IsBlank(line)
  /\ LET p == parts(Strip(line))
     IN  ~(Len(p) = 2 /\ FloatOk(p[1]) /\ FloatOk(p[2]))

HasBadLine == \E i \in 1..Len(data_str) : BadLine(data_str[i])

\* its 1-based line number in the input text
FirstBadLine ==
  CHOOSE i \in 1..Len(data_str) :
    BadLine(data_str[i]) /\ \A k \in 1..(i - 1) : ~BadLine(data_str[k])

\* ------------------------------------------------------------------ claims
\* C1: with at least 2 valid points and step <= 0 the call fails with an
\* InvalidStep error value and returns no curves.
C1_InvalidStepRejected ==
  (pc = "returned" /\ step_size <= 0 /\ Accepted)
    => (~ret.raised /\ ret.error # None /\ ret.original = None /\ ret.new = None)

\* C2: every failing call returns normally with a non-empty error value, and
\* a result with no error comes only together with both curves.
C2_FailureCarriesError ==
  pc = "returned" =>
    /\ ~Accepted => (~ret.raised /\ ret.error # None)
    /\ (~ret.raised /\ ret.error = None) => (ret.original # None /\ ret.new # None)

\* C3: when some non-blank line does not yield two numbers, the call stops at
\* the first such line, reports that line's 1-based number in the input text
\* (blank lines before it counted) and returns no curve.
C3_CitesInputLineNumber ==
  (pc = "returned" /\ HasBadLine) =>
    /\ Len(st_msgs) = 1
    /\ st_msgs[1].kind \in {"two_numbers", "convert"}
    /\ st_msgs[1].line = FirstBadLine
    /\ ret.new = None

\* the last position of the y-sorted curve that carries the y of position i
LastWithY(i) ==
  CHOOSE k \in 1..Len(OrigY) :
    OrigY[k] = OrigY[i] /\ \A m \in (k + 1)..Len(OrigY) : OrigY[m] # OrigY[i]

\* C4 as stated: interpolating the sorted curve at the y of any original
\* point returns that point's x, duplicates in y included.
C4_RoundTripEveryKnot ==
  Succeeded =>
    \A i \in 1..Len(OrigY) : Interp(OrigY[i], OrigY, OrigX) = <<OrigX[i], 1>>

\* C4 amended: interpolating the sorted curve at the y of an original point
\* returns the x of the last point of the sorted curve with that y, which is
\* the point's own x whenever no other point shares its y.
C4_RoundTripLastOfTies ==
  Succeeded =>
    \A i \in 1..Len(OrigY) :
      /\ Interp(OrigY[i], OrigY, OrigX) = <<OrigX[LastWithY(i)], 1>>
      /\ (\A k \in 1..Len(OrigY) : OrigY[k] = OrigY[i] => k = i)
           => Interp(OrigY[i], OrigY, OrigX) = <<OrigX[i], 1>>

C4_Witness ==
  /\ Succeeded
  /\ \E i, k \in 1..Len(OrigY) : i < k /\ OrigY[i] = OrigY[k] /\ OrigX[i] # OrigX[k]
  /\ \E i \in 1..Len(OrigY) : \A k \in 1..Len(OrigY) : OrigY[k] = OrigY[i] => k = i

C6_GridSpacing ==
  (Succeeded /\ step_size > 0) =>
    LET pts == data
        lo  == MinYOf(pts)
        hi  == MaxYOf(pts)
    IN  \A i \in 1..(Len(NewY) - 1) :
          /\ NewY[i + 1] - NewY[i] <= step_size
          /\ \/ NewY[i + 1] - NewY[i] = step_size
             \/ NewY[i + 1] = hi
             \/ ~OnGrid(NewY[i], lo, hi) /\ NewY[i] \in {pts[1].y, pts[Len(pts)].y}
             \/ ~OnGrid(NewY[i + 1], lo, hi) /\ NewY[i + 1] \in {pts[1].y, pts[Len(pts)].y}

C6_Witness ==
  /\ Succeeded
  /\ step_size > 0
  /\ Len(NewY) >= 3
  /\ NewY[2] - NewY[1] = step_size
  /\ NewY[Len(NewY)] - NewY[Len(NewY) - 1] < step_size
  /\ OnGrid(NewY[Len(NewY) - 1], NewY[1], NewY[Len(NewY)])

\* the point <<x, y>> lies on the segment between positions j and j+1 of the
\* y-sorted input, x being a fraction <<num, den>>
OnSegment(x, y, j) ==
  /\ OrigY[j] <= y
  /\ y <= OrigY[j + 1]
  /\ IF OrigY[j] = OrigY[j + 1]
       THEN x = <<OrigX[j], 1>> \/ x = <<OrigX[j + 1], 1>>
       ELSE (x[1] - OrigX[j] * x[2]) * (OrigY[j + 1] - OrigY[j])
              = (OrigX[j + 1] - OrigX[j]) * (y - OrigY[j]) * x[2]

C7_Example == <<L_0_0, L_10_1, L_20_2>>

\* C7: each grid y of the new curve carries the x of the piecewise-linear
\* interpolation between the two y-sorted input points that bracket it; the
\* input "0,0\n10,1\n20,2" with step 0.5 gives y [0, 0.5, 1, 1.5, 2] and
\* x [0, 5, 10, 15, 20].
C7_LinearInterpolation ==
  Succeeded =>
    LET pts == data
        lo  == MinYOf(pts)
        hi  == MaxYOf(pts)
    IN  /\ \A i \in 1..Len(NewY) :
             OnGrid(NewY[i], lo, hi) =>
               \E j \in 1..(Len(OrigY) - 1) : OnSegment(NewX[i], NewY[i], j)
        /\ (data_str = C7_Example /\ step_size = 5) =>
             /\ NewY = <<0, 5, 10, 15, 20>>
             /\ NewX = <<<<0, 1>>, <<50, 1>>, <<100, 1>>, <<150, 1>>, <<200, 1>>>>

C7_Witness ==
  /\ Succeeded
  /\ data_str = C7_Example
  /\ step_size = 5
  /\ NewX[2] = <<50, 1>>

C8_Example == <<L_0_1, L_1_0, L_2_2>>

\* C8 as stated: the input "0,1\n1,0\n2,2" makes the call fail with
\* NonMonotonicY instead of returning curves.
C8_NonMonotonicRejected ==
  (pc = "returned" /\ data_str = C8_Example /\ step_size > 0)
    => (ret.error # None /\ ret.original = None /\ ret.new = None)

\* C8 amended: there is no monotonicity failure; the points are sorted by y,
\* so the sorted sequence has no decreasing adjacent pair, and every input
\* of at least 2 valid points with step > 0, "0,1\n1,0\n2,2" included,
\* returns both curves and no error.
C8_SortedAndAccepted ==
  (pc = "returned" /\ step_size > 0 /\ Accepted) =>
    /\ Succeeded
    /\ ret.error = None
    /\ Len(OrigY) = Len(data)
    /\ \A i \in 1..(Len(OrigY) - 1) : OrigY[i] <= OrigY[i + 1]

C8_Witness ==
  /\ Succeeded
  /\ data_str = C8_Example
  /\ step_size > 0
  /\ OrigY = <<0, 10, 20>>
  /\ OrigX = <<10, 0, 20>>

\* the new curve has a point at the y of p
HasY(p) == \E i \in 1..Len(NewY) : NewY[i] = p.y

\* the new curve has the point p itself, with p's own x
HasPoint(p) == \E i \in 1..Len(NewY) : NewY[i] = p.y /\ NewX[i] = <<p.x, 1>>

C10_OneShotFlag ==
  /\ (pc = "idle" /\ click \in {"fail", "empty"}) =>
       (session.results_data = None /\ ~session.just_generated)
  /\ session.just_generated => (pc = "display" /\ click = "ok")

====
